---- MODULE Spec2Model ----
(***************************************************************************)
(* Model of ecotr3's tree renderer, statistics aggregator and size         *)
(* formatter (src/src/ecotr3/tree_generator.py).                           *)
(*                                                                         *)
(* Strings are sequences of one-character strings, so that matching,       *)
(* sorting, formatting and joining are computed character by character as  *)
(* the Python code computes them.  The four box-drawing characters are     *)
(* written by their code points ("U+2514" is one character).               *)
(***************************************************************************)
EXTENDS Integers, Sequences, FiniteSets, TLC

VARIABLES
    fs,          \* the directory tree below the root: a set of entries
    call,        \* arguments of the last call made on this tree, or NoCall
    listing,     \* the order os.listdir used during the last call
    output,      \* string returned by generate_directory_tree
    stats,       \* dictionary returned by calculate_directory_stats
    size_bytes,  \* argument of the last format_size call
    formatted,   \* string returned by format_size
    ignore_file, \* the .e3ignore file of the working directory
    result,      \* value returned by a call into ignore_handler or the matcher
    walk,        \* a traversal in progress: frames, lines and statistics so far
    denied       \* the directories of the tree that may not be listed

vars == <<fs, call, listing, output, stats, size_bytes, formatted,
          ignore_file, result, walk, denied>>

-----------------------------------------------------------------------------
(* Bounds of the model *)

MaxEntries == 3      \* entries the environment adds below the root
MaxPathLen == 3      \* nesting of an entry below the root
MaxDepthLimit == 1   \* largest max_depth argument
MaxExp == 4          \* format_size arguments are mant * 1024^exp, exp <= MaxExp
MaxLines == 2        \* lines the environment writes into .e3ignore
MaxChanges == 1      \* changes the environment makes to the tree during one walk

-----------------------------------------------------------------------------
(* Python values *)

None == <<>>
Some(x) == <<x>>

Max(a, b) == IF a >= b THEN a ELSE b

\* ord(): code points of the ASCII characters that names, patterns and
\* ignore files are written with
ord ==
    ("\t" :> 9) @@ ("\n" :> 10) @@ ("\r" :> 13) @@ (" " :> 32) @@ ("!" :> 33) @@
    ("\"" :> 34) @@ ("#" :> 35) @@ ("$" :> 36) @@ ("%" :> 37) @@ ("&" :> 38) @@
    ("'" :> 39) @@ ("(" :> 40) @@ (")" :> 41) @@ ("*" :> 42) @@ ("+" :> 43) @@
    ("," :> 44) @@ ("-" :> 45) @@ ("." :> 46) @@ ("/" :> 47) @@ ("0" :> 48) @@
    ("1" :> 49) @@ ("2" :> 50) @@ ("3" :> 51) @@ ("4" :> 52) @@ ("5" :> 53) @@
    ("6" :> 54) @@ ("7" :> 55) @@ ("8" :> 56) @@ ("9" :> 57) @@ (":" :> 58) @@
    (";" :> 59) @@ ("<" :> 60) @@ ("=" :> 61) @@ (">" :> 62) @@ ("?" :> 63) @@
    ("@" :> 64) @@ ("A" :> 65) @@ ("B" :> 66) @@ ("C" :> 67) @@ ("D" :> 68) @@
    ("E" :> 69) @@ ("F" :> 70) @@ ("G" :> 71) @@ ("H" :> 72) @@ ("I" :> 73) @@
    ("J" :> 74) @@ ("K" :> 75) @@ ("L" :> 76) @@ ("M" :> 77) @@ ("N" :> 78) @@
    ("O" :> 79) @@ ("P" :> 80) @@ ("Q" :> 81) @@ ("R" :> 82) @@ ("S" :> 83) @@
    ("T" :> 84) @@ ("U" :> 85) @@ ("V" :> 86) @@ ("W" :> 87) @@ ("X" :> 88) @@
    ("Y" :> 89) @@ ("Z" :> 90) @@ ("[" :> 91) @@ ("\\" :> 92) @@ ("]" :> 93) @@
    ("^" :> 94) @@ ("_" :> 95) @@ ("a" :> 97) @@ ("b" :> 98) @@
    ("c" :> 99) @@ ("d" :> 100) @@ ("e" :> 101) @@ ("f" :> 102) @@ ("g" :> 103) @@
    ("h" :> 104) @@ ("i" :> 105) @@ ("j" :> 106) @@ ("k" :> 107) @@ ("l" :> 108) @@
    ("m" :> 109) @@ ("n" :> 110) @@ ("o" :> 111) @@ ("p" :> 112) @@ ("q" :> 113) @@
    ("r" :> 114) @@ ("s" :> 115) @@ ("t" :> 116) @@ ("u" :> 117) @@ ("v" :> 118) @@
    ("w" :> 119) @@ ("x" :> 120) @@ ("y" :> 121) @@ ("z" :> 122) @@ ("{" :> 123) @@
    ("|" :> 124) @@ ("}" :> 125) @@ ("~" :> 126)

\* str.lower() on one character: the capital letters are 32 below the small
lower_char(c) ==
    IF c \in DOMAIN ord /\ ord[c] >= 65 /\ ord[c] <= 90
    THEN CHOOSE d \in DOMAIN ord : ord[d] = ord[c] + 32
    ELSE c

lower(s) == [i \in 1..Len(s) |-> lower_char(s[i])]

\* str < str: lexicographic by code point, a proper prefix is smaller
RECURSIVE str_less(_, _)
str_less(a, b) ==
    IF b = <<>> THEN FALSE
    ELSE IF a = <<>> THEN TRUE
    ELSE IF a[1] # b[1] THEN ord[a[1]] < ord[b[1]]
    ELSE str_less(Tail(a), Tail(b))

\* sorted(list): ascending, by insertion into the sorted prefix
RECURSIVE insert_sorted(_, _)
insert_sorted(x, s) ==
    IF s = <<>> THEN <<x>>
    ELSE IF str_less(x, s[1]) THEN <<x>> \o s
    ELSE <<s[1]>> \o insert_sorted(x, Tail(s))

\* sorted(list) that leaves the list as it is
sorted_as_listed(s) == s

RECURSIVE sorted(_)
sorted(s) ==
    IF s = <<>> THEN <<>>
    ELSE insert_sorted(s[Len(s)], sorted(SubSeq(s, 1, Len(s) - 1)))

\* sep.join(list)
RECURSIVE str_join(_, _)
str_join(sep, list) ==
    IF list = <<>> THEN <<>>
    ELSE IF Len(list) = 1 THEN list[1]
    ELSE list[1] \o sep \o str_join(sep, Tail(list))

\* str(n) for n >= 0
digit_char == <<"0", "1", "2", "3", "4", "5", "6", "7", "8", "9">>

RECURSIVE str_int(_)
str_int(n) ==
    IF n < 10 THEN <<digit_char[n + 1]>>
    ELSE str_int(n \div 10) \o <<digit_char[(n % 10) + 1]>>

\* str.rstrip(c)
RECURSIVE rstrip(_, _)
rstrip(s, c) ==
    IF s # <<>> /\ s[Len(s)] = c THEN rstrip(SubSeq(s, 1, Len(s) - 1), c)
    ELSE s

-----------------------------------------------------------------------------
(* Entry names, roots and pattern lists the environment draws from *)

n_src == <<"s", "r", "c">>
n_docs == <<"d", "o", "c", "s">>
n_main_py == <<"m", "a", "i", "n", ".", "p", "y">>
n_index_html == <<"i", "n", "d", "e", "x", ".", "h", "t", "m", "l">>
n_b_log == <<"b", ".", "l", "o", "g">>
n_hash_x == <<"#", "x">>
n_a_py == <<"a", ".", "p", "y">>
n_b_PY == <<"b", ".", "P", "Y">>
n_c_md == <<"c", ".", "m", "d">>
n_d_txt == <<"d", ".", "t", "x", "t">>
n_e_js == <<"e", ".", "j", "s">>
n_f_css == <<"f", ".", "c", "s", "s">>
n_g_c == <<"g", ".", "c">>
n_h_md == <<"h", ".", "m", "d">>
n_Makefile == <<"M", "a", "k", "e", "f", "i", "l", "e">>

DirNames == {n_src, n_docs}
FileNames == {n_main_py, n_index_html, n_b_log}

\* The environment writes each file name with its own size, so that a sum of
\* sizes tells which files were added up.
n_size(name) ==
    CASE name = n_main_py -> 1050
      [] name = n_index_html -> 820
      [] name = n_b_log -> 7
      [] name = n_hash_x -> 3
      [] OTHER -> 0

RootDirs == {<<"/", "r">>}

\* the names a directory may hold, in one order os.listdir may use
listed_names ==
    <<n_hash_x, n_Makefile, n_a_py, n_b_PY, n_b_log, n_c_md, n_d_txt, n_docs,
      n_e_js, n_f_css, n_g_c, n_h_md, n_index_html, n_main_py, n_src>>

\* orders in which os.listdir may return the names of one directory
ListingOrders ==
    { listed_names,
      [i \in 1..Len(listed_names) |-> listed_names[Len(listed_names) + 1 - i]] }

p_src == <<"s", "r", "c">>
p_under_docs == <<"*", "/", "d", "o", "c", "s", "/", "*">>
p_py == <<"*", ".", "p", "?">>

PatternArgs ==
    { None,
      Some(<<>>),
      Some(<<p_src>>),
      Some(<<p_under_docs, p_py>>) }

DepthArgs == {None} \cup {Some(d) : d \in 0..MaxDepthLimit}

-----------------------------------------------------------------------------
(* The filesystem as the os module shows it *)

os_sep == "/"

\* os.path.join(directory, entry), directory not ending in a separator
path_join(directory, entry) == directory \o <<os_sep>> \o entry

\* os.path.basename(path): what follows the last separator
RECURSIVE basename(_)
basename(path) ==
    IF path = <<>> THEN <<>>
    ELSE IF path[Len(path)] = os_sep THEN <<>>
    ELSE Append(basename(SubSeq(path, 1, Len(path) - 1)), path[Len(path)])

\* os.getcwd() of the calling process
getcwd == <<"/", "w">>

\* os.path.abspath(path) for a path without '.', '..' or doubled separators:
\* a relative path is joined to the working directory, trailing separators
\* are dropped
abspath(path) ==
    LET absolute == IF path # <<>> /\ path[1] = os_sep THEN path
                    ELSE IF path = <<>> THEN getcwd
                    ELSE path_join(getcwd, path)
        stripped == rstrip(absolute, os_sep)
    IN IF stripped = <<>> THEN <<os_sep>> ELSE stripped

\* The node of the tree a directory string denotes is carried next to the
\* string: a node is the sequence of names leading to it from the root.
exists(F, node) == \E e \in F : e.path = node
isdir(F, node) == node = <<>> \/ \E e \in F : e.path = node /\ e.isdir
getsize(F, node) == (CHOOSE e \in F : e.path = node).size

\* os.listdir(directory): the children, in the order the environment chose
listdir(F, order, node) ==
    SelectSeq(order, LAMBDA n : exists(F, Append(node, n)))

-----------------------------------------------------------------------------
(* should_ignore *)

\* fnmatch.translate: the position of the ']' that closes the class opened
\* just before position i of pat, or 0 when nothing closes it.  A '!' and a
\* ']' that come first belong to the class.
class_end(pat, i) ==
    LET j1 == IF i <= Len(pat) /\ pat[i] = "!" THEN i + 1 ELSE i
        j2 == IF j1 <= Len(pat) /\ pat[j1] = "]" THEN j1 + 1 ELSE j1
        closes == {j \in j2..Len(pat) : pat[j] = "]"}
    IN IF closes = {} THEN 0
       ELSE CHOOSE j \in closes : \A k \in closes : j <= k

\* c is one of the characters of a class body: a character of the body, or
\* one between the two ends of a range x-y (an empty range holds nothing)
RECURSIVE class_has(_, _)
class_has(body, c) ==
    IF body = <<>> THEN FALSE
    ELSE IF Len(body) >= 3 /\ body[2] = "-"
         THEN \/ /\ c \in DOMAIN ord
                 /\ ord[body[1]] <= ord[c]
                 /\ ord[c] <= ord[body[3]]
              \/ class_has(SubSeq(body, 4, Len(body)), c)
    ELSE body[1] = c \/ class_has(Tail(body), c)

\* fnmatch.fnmatch(name, pat) on POSIX: os.path.normcase is the identity,
\* '*' is '.*', '?' is '.', '[seq]' is one character of seq, '[!seq]' one
\* character not of seq, an unclosed '[' and any other character is itself,
\* and the whole name must match.
RECURSIVE fnmatch(_, _)
fnmatch(name, pat) ==
    IF pat = <<>> THEN name = <<>>
    ELSE IF pat[1] = "*"
         THEN \E k \in 0..Len(name) :
                  fnmatch(SubSeq(name, k + 1, Len(name)), Tail(pat))
    ELSE IF name = <<>> THEN FALSE
    ELSE IF pat[1] = "?" THEN fnmatch(Tail(name), Tail(pat))
    ELSE IF pat[1] = "[" /\ class_end(pat, 2) # 0
         THEN LET j == class_end(pat, 2)
                  negated == pat[2] = "!"
                  body == SubSeq(pat, IF negated THEN 3 ELSE 2, j - 1)
              IN /\ class_has(body, name[1]) # negated
                 /\ fnmatch(Tail(name), SubSeq(pat, j + 1, Len(pat)))
    ELSE pat[1] = name[1] /\ fnmatch(Tail(name), Tail(pat))

\* should_ignore with the full-path test left out
should_ignore_base_name_only(path, ignore_patterns) ==
    LET base_name == basename(path)
    IN \E i \in 1..Len(ignore_patterns) :
           fnmatch(base_name, ignore_patterns[i])

should_ignore(path, ignore_patterns) ==
    LET base_name == basename(path)
    IN \E i \in 1..Len(ignore_patterns) :
           \/ fnmatch(base_name, ignore_patterns[i])
           \/ fnmatch(path, ignore_patterns[i])

-----------------------------------------------------------------------------
(* calculate_directory_stats *)

\* os.path.splitext(entry)[1] of a name without separators: from the last
\* dot on, unless only dots precede that dot
splitext_ext(entry) ==
    LET dots == {i \in 1..Len(entry) : entry[i] = "."}
    IN IF dots = {} THEN <<>>
       ELSE LET dotIndex == CHOOSE i \in dots : \A j \in dots : j <= i
            IN IF \E k \in 1..(dotIndex - 1) : entry[k] # "."
               THEN SubSeq(entry, dotIndex, Len(entry))
               ELSE <<>>

\* stats['extensions'][ext] += 1 on a dictionary kept in insertion order
count_extension(extensions, ext) ==
    IF \E i \in 1..Len(extensions) : extensions[i].ext = ext
    THEN [i \in 1..Len(extensions) |->
             IF extensions[i].ext = ext
             THEN [extensions[i] EXCEPT !.count = @ + 1]
             ELSE extensions[i]]
    ELSE Append(extensions, [ext |-> ext, count |-> 1])

new_stats ==
    [file_count |-> 0, dir_count |-> 0, total_size |-> 0, max_depth |-> 0,
     extensions |-> <<>>]

RECURSIVE _analyze_directory(_, _, _, _, _)
RECURSIVE _analyze_directory_loop(_, _, _, _, _, _, _)

\* The stats dictionary after the helper has walked current_dir.
\* ctx holds fs, order and ignore_patterns of the enclosing call.
_analyze_directory(ctx, st, current_dir, node, current_depth) ==
    LET st1 == [st EXCEPT !.max_depth = Max(@, current_depth)]
        entries == listdir(ctx.fs, ctx.order, node)
    IN _analyze_directory_loop(ctx, st1, current_dir, node, current_depth,
                               entries, 1)

_analyze_directory_loop(ctx, st, current_dir, node, current_depth, entries, i) ==
    IF i > Len(entries) THEN st
    ELSE
        LET entry == entries[i]
            full_path == path_join(current_dir, entry)
            child == Append(node, entry)
            after ==
                IF ctx.ignore_patterns # None /\ ctx.ignore_patterns # Some(<<>>)
                   /\ should_ignore(full_path, ctx.ignore_patterns[1])
                THEN st
                ELSE IF isdir(ctx.fs, child)
                THEN _analyze_directory(ctx, [st EXCEPT !.dir_count = @ + 1],
                                        full_path, child, current_depth + 1)
                ELSE LET ext == splitext_ext(entry)
                         counted == [st EXCEPT !.file_count = @ + 1,
                                               !.total_size = @ + getsize(ctx.fs, child)]
                     IN IF ext # <<>>
                        THEN [counted EXCEPT
                                 !.extensions = count_extension(@, lower(ext))]
                        ELSE counted
        IN _analyze_directory_loop(ctx, after, current_dir, node, current_depth,
                                   entries, i + 1)

\* calculate_directory_stats with the patterns not handed to the walk
calculate_directory_stats_unfiltered(F, order, directory, ignore_patterns) ==
    _analyze_directory([fs |-> F, order |-> order, ignore_patterns |-> None],
                       new_stats, directory, <<>>, 0)

calculate_directory_stats(F, order, directory, ignore_patterns) ==
    _analyze_directory([fs |-> F, order |-> order,
                        ignore_patterns |-> ignore_patterns],
                       new_stats, directory, <<>>, 0)

-----------------------------------------------------------------------------
(* format_size *)

\* A size is mant * 1024^exp with mant < 2^21; exp goes below 0 as the loop
\* divides.  Such a quotient is exact in a Python float.
Bytes(n) == [mant |-> n, exp |-> 0]

pow1024(k) == IF k = 0 THEN 1 ELSE IF k = 1 THEN 1024 ELSE 1048576

\* size_bytes < 1024
below_1024(v) ==
    IF v.exp >= 1 THEN v.mant = 0
    ELSE IF v.exp <= -2 THEN TRUE
    ELSE v.mant < 1024 * pow1024(-v.exp)

two_digits(n) == <<digit_char[(n \div 10) + 1], digit_char[(n % 10) + 1]>>

\* f"{size_bytes:.2f}": the exact quotient rounded half-even to hundredths
fixed2(v) ==
    IF v.exp >= 0
    THEN str_int(v.mant * pow1024(v.exp)) \o <<".", "0", "0">>
    ELSE LET d == pow1024(-v.exp)
             q == (v.mant * 100) \div d
             r == (v.mant * 100) % d
             h == IF 2 * r > d \/ (2 * r = d /\ q % 2 = 1) THEN q + 1 ELSE q
         IN str_int(h \div 100) \o <<".">> \o two_digits(h % 100)

size_units == << <<"B">>, <<"K", "B">>, <<"M", "B">>, <<"G", "B">>, <<"T", "B">> >>

RECURSIVE format_size_from(_, _)
format_size_from(v, u) ==
    LET unit == size_units[u]
    IN IF below_1024(v) \/ u = Len(size_units)
       THEN rstrip(rstrip(fixed2(v) \o <<" ">> \o unit, "0"), ".")
                \o <<" ">> \o unit
       ELSE format_size_from([v EXCEPT !.exp = @ - 1], u + 1)

format_size(v) == format_size_from(v, 1)

-----------------------------------------------------------------------------
(* generate_directory_tree *)

default_ignore_patterns ==
    << <<".", "g", "i", "t">>,
       <<"_", "_", "p", "y", "c", "a", "c", "h", "e", "_", "_">>,
       <<"*", ".", "p", "y", "c">>,
       <<"*", ".", "l", "o", "g">>,
       <<".", "D", "S", "_", "S", "t", "o", "r", "e">> >>

branch_last == <<"U+2514", "U+2500", "U+2500", " ">>   \* terminal glyph
branch_mid == <<"U+251C", "U+2500", "U+2500", " ">>    \* mid-branch glyph
prefix_last == <<" ", " ", " ", " ">>
prefix_mid == <<"U+2502", " ", " ", " ">>

\* depth_exceeded with the limit never enforced
depth_exceeded_never(max_depth, depth) == FALSE

\* depth_exceeded stopping one level early
depth_exceeded_at_limit(max_depth, depth) ==
    max_depth # None /\ depth >= max_depth[1]

\* "max depth is reached"
depth_exceeded(max_depth, depth) ==
    max_depth # None /\ depth > max_depth[1]

\* total_valid_entries counting the ignored entries too
total_valid_entries_unfiltered(directory, entries, ignore_patterns) ==
    Len(entries)

\* The number of entries of the sorted listing that are not ignored
total_valid_entries(directory, entries, ignore_patterns) ==
    Cardinality({ i \in 1..Len(entries) :
        ~should_ignore(path_join(directory, entries[i]), ignore_patterns) })

RECURSIVE _generate_tree(_, _, _, _, _)
RECURSIVE _generate_tree_loop(_, _, _, _, _, _, _, _, _)

\* The lines the recursive helper appends to tree_lines.
\* ctx holds the variables of the enclosing call: fs, order,
\* ignore_patterns, max_depth.
_generate_tree(ctx, directory, node, prefix, depth) ==
    IF depth_exceeded(ctx.max_depth, depth) THEN <<>>
    ELSE
        LET entries == sorted(listdir(ctx.fs, ctx.order, node))
        IN _generate_tree_loop(ctx, directory, node, prefix, depth,
               entries, 1, 0,
               total_valid_entries(directory, entries, ctx.ignore_patterns))

_generate_tree_loop(ctx, directory, node, prefix, depth, entries, i, processed_entries, total_valid) ==
    IF i > Len(entries) THEN <<>>
    ELSE
        LET entry == entries[i]
            full_path == path_join(directory, entry)
        IN IF should_ignore(full_path, ctx.ignore_patterns)
           THEN _generate_tree_loop(ctx, directory, node, prefix, depth,
                    entries, i + 1, processed_entries, total_valid)
           ELSE
               LET processed == processed_entries + 1
                   is_last == processed = total_valid
                   branch == IF is_last THEN branch_last ELSE branch_mid
                   new_prefix ==
                       prefix \o (IF is_last THEN prefix_last ELSE prefix_mid)
                   line == prefix \o branch \o entry
                   below ==
                       IF isdir(ctx.fs, Append(node, entry))
                       THEN _generate_tree(ctx, full_path, Append(node, entry),
                                           new_prefix, depth + 1)
                       ELSE <<>>
               IN <<line>> \o below \o
                  _generate_tree_loop(ctx, directory, node, prefix, depth,
                      entries, i + 1, processed, total_valid)

\* sorted(items, key=count, reverse=True): stable, so equal counts keep
\* their dictionary order
RECURSIVE insert_by_count(_, _)
insert_by_count(x, s) ==
    IF s = <<>> THEN <<x>>
    ELSE IF s[1].count < x.count THEN <<x>> \o s
    ELSE <<s[1]>> \o insert_by_count(x, Tail(s))

RECURSIVE sorted_by_count(_)
sorted_by_count(items) ==
    IF items = <<>> THEN <<>>
    ELSE insert_by_count(items[Len(items)],
                         sorted_by_count(SubSeq(items, 1, Len(items) - 1)))

\* top_extensions without the ranking: the first five as counted
top_extensions_as_counted(extensions) ==
    SubSeq(extensions, 1, IF Len(extensions) < 5 THEN Len(extensions) ELSE 5)

top_extensions(extensions) ==
    LET ranked == sorted_by_count(extensions)
    IN SubSeq(ranked, 1, IF Len(ranked) < 5 THEN Len(ranked) ELSE 5)

t_separator == [i \in 1..40 |-> "="]
t_heading == <<"D", "i", "r", "e", "c", "t", "o", "r", "y", " ",
               "S", "t", "a", "t", "i", "s", "t", "i", "c", "s", ":">>
t_files == <<"T", "o", "t", "a", "l", " ", "F", "i", "l", "e", "s", ":", " ">>
t_dirs == <<"T", "o", "t", "a", "l", " ", "D", "i", "r", "e", "c", "t", "o",
            "r", "i", "e", "s", ":", " ">>
t_depth == <<"M", "a", "x", "i", "m", "u", "m", " ", "D", "e", "p", "t", "h", ":", " ">>
t_size == <<"T", "o", "t", "a", "l", " ", "S", "i", "z", "e", ":", " ">>
t_top == <<"T", "o", "p", " ", "F", "i", "l", "e", " ", "E", "x", "t", "e", "n",
           "s", "i", "o", "n", "s", ":">>
t_count_suffix == <<" ", "f", "i", "l", "e", "s">>

\* The lines appended to tree_lines when statistics are requested
stats_lines(st) ==
    LET top == top_extensions(st.extensions)
    IN << <<"\n">> \o t_separator,
          t_heading,
          t_files \o str_int(st.file_count),
          t_dirs \o str_int(st.dir_count),
          t_depth \o str_int(st.max_depth),
          t_size \o format_size(Bytes(st.total_size)) >>
       \o (IF st.extensions # <<>>
           THEN << <<"\n">> \o t_top >>
                \o [i \in 1..Len(top) |->
                       <<" ", " ">> \o top[i].ext \o <<":", " ">>
                       \o str_int(top[i].count) \o t_count_suffix]
           ELSE <<>>)

\* generate_directory_tree with the statistics walk held to max_depth
generate_directory_tree_stats_limited(F, order, root_dir, ignore_patterns, max_depth, include_stats) ==
    LET patterns == IF ignore_patterns = None THEN default_ignore_patterns
                    ELSE ignore_patterns[1]
        root == abspath(root_dir)
        ctx == [fs |-> F, order |-> order, ignore_patterns |-> patterns,
                max_depth |-> max_depth]
        shown == IF max_depth = None THEN F
                 ELSE {e \in F : Len(e.path) - 1 <= max_depth[1]}
        st == calculate_directory_stats(shown, order, root, Some(patterns))
        tree_lines ==
            <<basename(root)>>
            \o _generate_tree(ctx, root, <<>>, <<>>, 0)
            \o (IF include_stats THEN stats_lines(st) ELSE <<>>)
    IN str_join(<<"\n">>, tree_lines)

generate_directory_tree(F, order, root_dir, ignore_patterns, max_depth, include_stats) ==
    LET patterns == IF ignore_patterns = None THEN default_ignore_patterns
                    ELSE ignore_patterns[1]
        root == abspath(root_dir)
        ctx == [fs |-> F, order |-> order, ignore_patterns |-> patterns,
                max_depth |-> max_depth]
        st == calculate_directory_stats(F, order, root, Some(patterns))
        tree_lines ==
            <<basename(root)>>
            \o _generate_tree(ctx, root, <<>>, <<>>, 0)
            \o (IF include_stats THEN stats_lines(st) ELSE <<>>)
    IN str_join(<<"\n">>, tree_lines)

-----------------------------------------------------------------------------
(* load_ignore_file and the .e3ignore file it reads *)

\* no .e3ignore in the working directory
NoFile == [state |-> "missing"]

\* Lines an ignore file is written with: a comment, a blank and a
\* whitespace-only line, patterns, and padded forms of both
l_comment == <<"#", " ", "c">>
l_tmp == <<"*", ".", "t", "m", "p">>
l_build == <<"b", "u", "i", "l", "d", "/">>
l_padded_comment == <<" ", "\t", "#", "x">>
l_padded_docs == <<"\t", "d", "o", "c", "s", "/", " ">>
l_two_words == <<"a", " ", "b">>

IgnoreLines ==
    {l_comment, <<>>, <<" ", " ">>, l_tmp, l_build, l_padded_comment,
     l_padded_docs, l_two_words}

line_ends == { <<"\n">>, <<"\r", "\n">> }

\* The text of a file written line by line with one kind of line end, the
\* last line with or without it
RECURSIVE written(_, _, _)
written(lines, line_end, final_end) ==
    IF lines = <<>> THEN <<>>
    ELSE IF Len(lines) = 1
         THEN lines[1] \o (IF final_end THEN line_end ELSE <<>>)
    ELSE lines[1] \o line_end \o written(Tail(lines), line_end, final_end)

LinesUpTo(n) == UNION {[1..k -> IgnoreLines] : k \in 0..n}

\* What the path .e3ignore may be: nothing, a file that cannot be opened for
\* reading, a directory, or a readable file
IgnoreFiles ==
    {NoFile, [state |-> "unreadable"], [state |-> "directory"]}
    \cup { [state |-> "file", content |-> written(lines, line_end, final_end)] :
              lines \in LinesUpTo(MaxLines), line_end \in line_ends,
              final_end \in BOOLEAN }

\* The text create_ignore_file writes
ignore_file_template ==
    <<"#", " ", "E", "c", "o", "t", "r", "3", " ", "I", "g", "n", "o", "r",
      "e", " ", "F", "i", "l", "e", "\n", "#", " ", "A", "d", "d", " ",
      "f", "i", "l", "e", "s", " ", "a", "n", "d", " ", "d", "i", "r", "e",
      "c", "t", "o", "r", "i", "e", "s", " ", "t", "o", " ", "e", "x", "c",
      "l", "u", "d", "e", " ", "f", "r", "o", "m", " ", "t", "r", "e", "e",
      " ", "v", "i", "e", "w", "\n", "\n", "#", " ", "E", "x", "a", "m",
      "p", "l", "e", " ", "e", "n", "t", "r", "i", "e", "s", ":", "\n",
      "#", " ", ".", "g", "i", "t", "\n", "#", " ", "n", "o", "d", "e",
      "_", "m", "o", "d", "u", "l", "e", "s", "/", "\n", "#", " ", "*",
      ".", "l", "o", "g", "\n">>

\* str.strip(): blanks, tabs and line ends go from both ends
whitespace == {" ", "\t", "\n", "\r"}

RECURSIVE lstrip(_)
lstrip(s) ==
    IF s # <<>> /\ s[1] \in whitespace THEN lstrip(Tail(s)) ELSE s

RECURSIVE rstrip_whitespace(_)
rstrip_whitespace(s) ==
    IF s # <<>> /\ s[Len(s)] \in whitespace
    THEN rstrip_whitespace(SubSeq(s, 1, Len(s) - 1))
    ELSE s

strip(s) == rstrip_whitespace(lstrip(s))

\* str.startswith(c) for a one-character c
startswith(s, c) == s # <<>> /\ s[1] = c

\* Text mode with universal newlines: '\r\n' and '\r' are read as '\n'
universal_newlines(s) ==
    LET read == SelectSeq([k \in 1..Len(s) |-> k],
                    LAMBDA k : ~(s[k] = "\n" /\ k > 1 /\ s[k - 1] = "\r"))
    IN [i \in 1..Len(read) |-> IF s[read[i]] = "\r" THEN "\n" ELSE s[read[i]]]

\* for line in f: each line with its '\n', the last one as it is
RECURSIVE readlines(_)
readlines(text) ==
    LET ends == {k \in 1..Len(text) : text[k] = "\n"}
    IN IF text = <<>> THEN <<>>
       ELSE IF ends = {} THEN <<text>>
       ELSE LET k == CHOOSE e \in ends : \A other \in ends : e <= other
            IN <<SubSeq(text, 1, k)>> \o readlines(SubSeq(text, k + 1, Len(text)))

\* load_ignore_file that keeps the comment lines
load_ignore_file_with_comments(file) ==
    IF file.state = "missing" THEN default_ignore_patterns
    ELSE IF file.state # "file" THEN default_ignore_patterns
    ELSE LET lines == readlines(universal_newlines(file.content))
             kept == SelectSeq(lines, LAMBDA line : strip(line) # <<>>)
         IN default_ignore_patterns \o [i \in 1..Len(kept) |-> strip(kept[i])]

\* load_ignore_file on the path .e3ignore: the defaults when os.path.exists
\* is false or open raises IOError, else the defaults and the lines kept
load_ignore_file(file) ==
    IF file.state = "missing" THEN default_ignore_patterns
    ELSE IF file.state # "file" THEN default_ignore_patterns
    ELSE LET lines == readlines(universal_newlines(file.content))
             kept == SelectSeq(lines, LAMBDA line :
                         strip(line) # <<>> /\ ~startswith(strip(line), "#"))
         IN default_ignore_patterns \o [i \in 1..Len(kept) |-> strip(kept[i])]

-----------------------------------------------------------------------------
(* validate_ignore_pattern and is_path_ignored *)

\* re.escape(): a backslash goes before each of these characters
re_special ==
    {"(", ")", "[", "]", "{", "}", "?", "*", "+", "-", "|", "^", "$", "\\",
     ".", "&", "~", "#", " ", "\t", "\n", "\r"}

RECURSIVE re_escape(_)
re_escape(s) ==
    IF s = <<>> THEN <<>>
    ELSE (IF s[1] \in re_special THEN <<"\\", s[1]>> ELSE <<s[1]>>)
             \o re_escape(Tail(s))

\* str.replace(old, new): every occurrence of old, from the left
RECURSIVE replace(_, _, _)
replace(s, old, new) ==
    IF Len(s) < Len(old) THEN s
    ELSE IF SubSeq(s, 1, Len(old)) = old
         THEN new \o replace(SubSeq(s, Len(old) + 1, Len(s)), old, new)
    ELSE <<s[1]>> \o replace(Tail(s), old, new)

\* str.endswith(c) for a one-character c
endswith(s, c) == s # <<>> /\ s[Len(s)] = c

\* validate_ignore_pattern: None, or the anchored regular expression
validate_ignore_pattern(pattern) ==
    LET stripped == strip(pattern)
        escaped == re_escape(stripped)
        starred == replace(escaped, <<"\\", "*">>, <<".", "*">>)
        dotted == replace(starred, <<"\\", "?">>, <<".">>)
        regex_pattern == IF endswith(stripped, "/") THEN dotted \o <<".", "*">>
                         ELSE dotted
    IN IF stripped = <<>> \/ startswith(stripped, "#") THEN None
       ELSE Some(<<"^">> \o regex_pattern \o <<"$">>)

\* str.lstrip(chars)
RECURSIVE lstrip_chars(_, _)
lstrip_chars(s, chars) ==
    IF s # <<>> /\ s[1] \in chars THEN lstrip_chars(Tail(s), chars) ELSE s

\* Two characters are the same under re.IGNORECASE
same_ignoring_case(a, b) == lower_char(a) = lower_char(b)

\* re.match(regex, string, re.IGNORECASE) for the expressions
\* validate_ignore_pattern builds: '^' first, '$' last (the end of the
\* string, or just before a '\n' that ends it), '\c' the character c, '.'
\* any character but '\n', '.*' any run of them, any other character itself
RECURSIVE re_match_from(_, _)
re_match_from(regex, string) ==
    IF regex = <<>> THEN TRUE
    ELSE IF regex = <<"$">> THEN string = <<>> \/ string = <<"\n">>
    ELSE IF regex[1] = "\\"
         THEN /\ string # <<>>
              /\ same_ignoring_case(string[1], regex[2])
              /\ re_match_from(SubSeq(regex, 3, Len(regex)), Tail(string))
    ELSE IF regex[1] = "." /\ Len(regex) >= 2 /\ regex[2] = "*"
         THEN \E k \in 0..Len(string) :
                  /\ \A j \in 1..k : string[j] # "\n"
                  /\ re_match_from(SubSeq(regex, 3, Len(regex)),
                                   SubSeq(string, k + 1, Len(string)))
    ELSE IF regex[1] = "."
         THEN /\ string # <<>>
              /\ string[1] # "\n"
              /\ re_match_from(Tail(regex), Tail(string))
    ELSE /\ string # <<>>
         /\ same_ignoring_case(string[1], regex[1])
         /\ re_match_from(Tail(regex), Tail(string))

re_match(regex, string) ==
    IF startswith(regex, "^") THEN re_match_from(Tail(regex), string)
    ELSE re_match_from(regex, string)

is_path_ignored(path, ignore_patterns) ==
    LET normalized_path == lstrip_chars(path, {".", "/", "\\"})
    IN \E i \in 1..Len(ignore_patterns) :
           LET regex_pattern == validate_ignore_pattern(ignore_patterns[i])
           IN /\ regex_pattern # None
              /\ re_match(regex_pattern[1], normalized_path)

-----------------------------------------------------------------------------
(* Arguments the matcher and the ignore handler are called with *)

\* paths given to should_ignore
MatchPaths ==
    { <<"/", "r", "/", ".", "g", "i", "t">>, <<"/", "r", "/", "a", "p", "p", ".", "l", "o", "g">>, <<"/", "r", "/", "s", "r", "c", "/", "m", "a", "i", "n", ".", "p", "y">>, <<"/", "r", "/", "A", "P", "P", ".", "L", "O", "G">>,
      <<"/", "r", "/", "a", ".", "l", "o", "g">>, <<"/", "r", "/", "[", "a", "b", "]", ".", "l", "o", "g">>, <<"/", "r", "/", "#", "x">>, <<"/", "r", "/", "d", "o", "c", "s">> }

p_log == <<"*", ".", "l", "o", "g">>
p_git == <<".", "g", "i", "t">>
p_pycache == <<"_", "_", "p", "y", "c", "a", "c", "h", "e", "_", "_">>
p_git_dir == <<".", "g", "i", "t", "/">>
p_build_dir == <<"b", "u", "i", "l", "d", "/">>
p_docs_dir == <<"d", "o", "c", "s", "/">>
p_hash_x == <<"#", "x">>
p_empty == <<>>
p_blank == <<" ">>

\* pattern lists given to should_ignore
MatchPatternLists ==
    { <<p_log, p_git, p_pycache>>, <<>>, <<p_log>>, << <<"*", ".", "L", "O", "G">> >>,
      << <<"[", "a", "b", "]", ".", "l", "o", "g">> >>, << <<"[", "!", "a", "]", ".", "l", "o", "g">> >>, << <<"[", "a", "-", "c", "]", "*">> >>,
      << <<"[", "a", "b">> >>, << <<"?", ".", "l", "o", "g">> >>, << <<"a", "?", "?", ".", "l", "o", "g">> >>, << <<"*">> >>,
      << <<"M", "A", "I", "N", ".", "P", "Y">> >>, << <<"/", "r", "/", "*">> >>, <<p_docs_dir>>, <<p_hash_x>>,
      <<p_empty>>, <<p_blank>> }

\* patterns given to validate_ignore_pattern
ValidatePatterns ==
    { <<"*", ".", "p", "y">>, p_git_dir, <<"#", " ", "C", "o", "m", "m", "e", "n", "t">>, p_empty, p_blank, p_hash_x,
      <<" ", "a", "?", "b", " ">>, <<"\t", "#", "x">>, p_log, p_build_dir, <<"a", " ", "b">>, <<"[", "a", "b", "]", ".", "l", "o", "g">> }

\* relative paths given to is_path_ignored
RelativePaths ==
    { <<"a", "p", "p", ".", "l", "o", "g">>, <<".", "g", "i", "t", "/", "c", "o", "n", "f", "i", "g">>, <<"b", "u", "i", "l", "d", "/", "t", "e", "s", "t", ".", "t", "x", "t">>, <<"s", "r", "c", "/", "m", "a", "i", "n", ".", "p", "y">>,
      <<".", "/", "b", "u", "i", "l", "d", "/", "x">>, <<"B", "U", "I", "L", "D", "/", "x">>, <<"b", "u", "i", "l", "d">>, <<"#", "x">>, <<"d", "o", "c", "s", "/", "#", "x">>,
      <<".", "h", "i", "d", "d", "e", "n", "/", "b", "u", "i", "l", "d", "/", "x">> }

\* pattern lists given to is_path_ignored
IgnoreLists ==
    { <<p_log, p_git_dir, p_build_dir>>, <<>>, <<p_git_dir>>, <<p_build_dir>>,
      <<p_docs_dir>>, <<p_hash_x>>, <<p_empty>>, <<p_blank>>,
      <<p_hash_x, p_empty, p_blank>>, << <<".", "h", "i", "d", "d", "e", "n", "/">> >>, << <<"*", ".", "L", "O", "G">> >>,
      << <<"*", "/", "x">> >> }

-----------------------------------------------------------------------------
(* The state machine: the environment builds the tree below the root, the  *)
(* program is called on it and its caller takes the result.                *)

NoCall == [op |-> "none"]

\* no traversal in progress
NoWalk == [status |-> "idle"]

Init ==
    /\ fs = {}
    /\ call = NoCall
    /\ listing = <<>>
    /\ output = <<>>
    /\ stats = <<>>
    /\ size_bytes = <<>>
    /\ formatted = <<>>
    /\ ignore_file = NoFile
    /\ result = <<>>
    /\ walk = NoWalk
    /\ denied = {}

CanAdd(parent, name) ==
    /\ Cardinality(fs) < MaxEntries
    /\ Len(parent) < MaxPathLen
    /\ isdir(fs, parent)
    /\ ~exists(fs, Append(parent, name))

Parents == {<<>>} \cup {e.path : e \in fs}

\* os.makedirs by the environment, between calls
Mkdir ==
    \E parent \in Parents, name \in DirNames :
        /\ call = NoCall
        /\ CanAdd(parent, name)
        /\ fs' = fs \cup {[path |-> Append(parent, name), isdir |-> TRUE,
                            size |-> 0]}
        /\ UNCHANGED <<call, listing, output, stats, size_bytes, formatted>>
        /\ UNCHANGED <<ignore_file, result, walk, denied>>

\* open(path, 'w') and write by the environment, between calls
WriteFile ==
    \E parent \in Parents, name \in FileNames :
        /\ call = NoCall
        /\ CanAdd(parent, name)
        /\ fs' = fs \cup {[path |-> Append(parent, name), isdir |-> FALSE,
                            size |-> n_size(name)]}
        /\ UNCHANGED <<call, listing, output, stats, size_bytes, formatted>>
        /\ UNCHANGED <<ignore_file, result, walk, denied>>

GenerateDirectoryTree ==
    \E root_dir \in RootDirs, ignore_patterns \in PatternArgs,
       max_depth \in DepthArgs, include_stats \in BOOLEAN,
       order \in ListingOrders :
        /\ call = NoCall
        /\ call' = [op |-> "generate_directory_tree", root_dir |-> root_dir,
                    ignore_patterns |-> ignore_patterns,
                    max_depth |-> max_depth, include_stats |-> include_stats]
        /\ listing' = order
        /\ output' = generate_directory_tree(fs, order, root_dir,
                         ignore_patterns, max_depth, include_stats)
        /\ UNCHANGED <<fs, stats, size_bytes, formatted>>
        /\ UNCHANGED <<ignore_file, result, walk, denied>>

CalculateDirectoryStats ==
    \E directory \in RootDirs, ignore_patterns \in PatternArgs,
       order \in ListingOrders :
        /\ call = NoCall
        /\ call' = [op |-> "calculate_directory_stats", root_dir |-> directory,
                    ignore_patterns |-> ignore_patterns]
        /\ listing' = order
        /\ stats' = calculate_directory_stats(fs, order, directory,
                                              ignore_patterns)
        /\ UNCHANGED <<fs, output, size_bytes, formatted>>
        /\ UNCHANGED <<ignore_file, result, walk, denied>>

\* The caller has used the result; the next call starts afresh.
Return ==
    /\ call # NoCall
    /\ call' = NoCall
    /\ listing' = <<>>
    /\ output' = <<>>
    /\ stats' = <<>>
    /\ result' = <<>>
    /\ UNCHANGED <<fs, size_bytes, formatted>>
    /\ UNCHANGED <<ignore_file, walk, denied>>

Next ==
    \/ Mkdir
    \/ WriteFile
    \/ GenerateDirectoryTree
    \/ CalculateDirectoryStats
    \/ Return

Spec == Init /\ [][Next]_vars

-----------------------------------------------------------------------------
(* The scenario root {src/{main.py}, docs/{index.html}}: calls on the tree  *)
(* of the scenario and on the trees its construction passes through.       *)

ScenarioEntries ==
    { [path |-> <<n_src>>, isdir |-> TRUE, size |-> 0],
      [path |-> <<n_src, n_main_py>>, isdir |-> FALSE, size |-> n_size(n_main_py)],
      [path |-> <<n_docs>>, isdir |-> TRUE, size |-> 0],
      [path |-> <<n_docs, n_index_html>>, isdir |-> FALSE,
       size |-> n_size(n_index_html)] }

InitScenario ==
    /\ fs \in {F \in SUBSET ScenarioEntries :
                  \A e \in F : Len(e.path) = 1 \/ \E d \in F :
                      d.isdir /\ d.path = SubSeq(e.path, 1, Len(e.path) - 1)}
    /\ call = NoCall
    /\ listing = <<>>
    /\ output = <<>>
    /\ stats = <<>>
    /\ size_bytes = <<>>
    /\ formatted = <<>>
    /\ ignore_file = NoFile
    /\ result = <<>>
    /\ walk = NoWalk
    /\ denied = {}

NextScenario ==
    \/ GenerateDirectoryTree
    \/ Return

SpecScenario == InitScenario /\ [][NextScenario]_vars

-----------------------------------------------------------------------------
(* format_size applied to sizes mant * 1024^exp *)

Mantissas ==
    {0, 1, 2, 5, 10, 100, 512, 1000, 1023, 1024, 1025, 1029, 1100, 1152,
     1280, 1536, 2000, 2047, 2048, 5000, 10000, 65536, 1048575, 1048576}

FormatSize ==
    \E mant \in Mantissas, exp \in 0..MaxExp :
        /\ size_bytes' = [mant |-> mant, exp |-> exp]
        /\ formatted' = format_size(size_bytes')
        /\ UNCHANGED <<fs, call, listing, output, stats>>
        /\ UNCHANGED <<ignore_file, result, walk, denied>>

NextFormat == FormatSize

SpecFormat == Init /\ [][NextFormat]_vars

-----------------------------------------------------------------------------
(* Calls into ignore_handler on the .e3ignore file the environment left in  *)
(* the working directory.                                                   *)

\* The environment writes .e3ignore, or leaves an unreadable file or a
\* directory of that name, where there was none
SetIgnoreFile ==
    \E file \in IgnoreFiles \ {NoFile} :
        /\ call = NoCall
        /\ ignore_file = NoFile
        /\ ignore_file' = file
        /\ UNCHANGED <<fs, call, listing, output, stats, size_bytes, formatted>>
        /\ UNCHANGED <<result, walk, denied>>

\* The environment removes .e3ignore
RemoveIgnoreFile ==
    /\ call = NoCall
    /\ ignore_file # NoFile
    /\ ignore_file' = NoFile
    /\ UNCHANGED <<fs, call, listing, output, stats, size_bytes, formatted>>
    /\ UNCHANGED <<result, walk, denied>>

\* main.create_ignore_file: writes the template unless the path exists
CreateIgnoreFile ==
    /\ call = NoCall
    /\ ignore_file = NoFile
    /\ ignore_file' = [state |-> "file", content |-> ignore_file_template]
    /\ UNCHANGED <<fs, call, listing, output, stats, size_bytes, formatted>>
    /\ UNCHANGED <<result, walk, denied>>

LoadIgnoreFile ==
    /\ call = NoCall
    /\ call' = [op |-> "load_ignore_file"]
    /\ result' = load_ignore_file(ignore_file)
    /\ UNCHANGED <<fs, listing, output, stats, size_bytes, formatted>>
    /\ UNCHANGED <<ignore_file, walk, denied>>

NextIgnore ==
    \/ SetIgnoreFile
    \/ RemoveIgnoreFile
    \/ CreateIgnoreFile
    \/ LoadIgnoreFile
    \/ Return

SpecIgnore == Init /\ [][NextIgnore]_vars

-----------------------------------------------------------------------------
(* The matcher and the ignore handler called on their own, and the renderer *)
(* called with pattern lists as an ignore file gives them, on the root at   *)
(* an absolute and at a relative path.                                      *)

MatchEntries ==
    { [path |-> <<n_docs>>, isdir |-> TRUE, size |-> 0],
      [path |-> <<n_docs, n_index_html>>, isdir |-> FALSE,
       size |-> n_size(n_index_html)],
      [path |-> <<n_hash_x>>, isdir |-> FALSE, size |-> n_size(n_hash_x)],
      [path |-> <<n_b_log>>, isdir |-> FALSE, size |-> n_size(n_b_log)] }

InitMatch ==
    /\ fs \in {F \in SUBSET MatchEntries :
                  \A e \in F : Len(e.path) = 1 \/ \E d \in F :
                      d.isdir /\ d.path = SubSeq(e.path, 1, Len(e.path) - 1)}
    /\ call = NoCall
    /\ listing = <<>>
    /\ output = <<>>
    /\ stats = <<>>
    /\ size_bytes = <<>>
    /\ formatted = <<>>
    /\ ignore_file = NoFile
    /\ result = <<>>
    /\ walk = NoWalk
    /\ denied = {}

\* the root given as an absolute path and relative to the working directory
MatchRoots == { <<"/", "r">>, <<"r">> }

\* pattern lists given to generate_directory_tree
RenderPatternLists ==
    { <<p_docs_dir>>, default_ignore_patterns \o <<p_docs_dir>>, <<p_hash_x>>,
      <<p_empty>>, <<p_blank, p_log>>, << <<"/", "r", "/", "*">> >>, << <<"/", "w", "/", "*">> >>,
      << <<"*", ".", "h", "t", "m", "l">> >>, << <<"r">> >> }

ShouldIgnore ==
    \E path \in MatchPaths, ignore_patterns \in MatchPatternLists :
        /\ call = NoCall
        /\ call' = [op |-> "should_ignore", path |-> path,
                    ignore_patterns |-> ignore_patterns]
        /\ result' = should_ignore(path, ignore_patterns)
        /\ UNCHANGED <<fs, listing, output, stats, size_bytes, formatted>>
        /\ UNCHANGED <<ignore_file, walk, denied>>

ValidateIgnorePattern ==
    \E pattern \in ValidatePatterns :
        /\ call = NoCall
        /\ call' = [op |-> "validate_ignore_pattern", pattern |-> pattern]
        /\ result' = validate_ignore_pattern(pattern)
        /\ UNCHANGED <<fs, listing, output, stats, size_bytes, formatted>>
        /\ UNCHANGED <<ignore_file, walk, denied>>

IsPathIgnored ==
    \E path \in RelativePaths, ignore_patterns \in IgnoreLists :
        /\ call = NoCall
        /\ call' = [op |-> "is_path_ignored", path |-> path,
                    ignore_patterns |-> ignore_patterns]
        /\ result' = is_path_ignored(path, ignore_patterns)
        /\ UNCHANGED <<fs, listing, output, stats, size_bytes, formatted>>
        /\ UNCHANGED <<ignore_file, walk, denied>>

GenerateWithPatterns ==
    \E root_dir \in MatchRoots, ignore_patterns \in RenderPatternLists,
       include_stats \in BOOLEAN, order \in ListingOrders :
        /\ call = NoCall
        /\ call' = [op |-> "generate_directory_tree", root_dir |-> root_dir,
                    ignore_patterns |-> Some(ignore_patterns),
                    max_depth |-> None, include_stats |-> include_stats]
        /\ listing' = order
        /\ output' = generate_directory_tree(fs, order, root_dir,
                         Some(ignore_patterns), None, include_stats)
        /\ UNCHANGED <<fs, stats, size_bytes, formatted>>
        /\ UNCHANGED <<ignore_file, result, walk, denied>>

NextMatch ==
    \/ ShouldIgnore
    \/ ValidateIgnorePattern
    \/ IsPathIgnored
    \/ GenerateWithPatterns
    \/ Return

SpecMatch == InitMatch /\ [][NextMatch]_vars

-----------------------------------------------------------------------------
(* A root whose files carry many extensions, rendered with statistics *)

ExtensionEntries ==
    { [path |-> <<name>>, isdir |-> FALSE, size |-> n_size(name)] :
          name \in {n_a_py, n_b_PY, n_c_md, n_d_txt, n_e_js, n_f_css, n_g_c,
                    n_Makefile} }
    \cup { [path |-> <<n_docs>>, isdir |-> TRUE, size |-> 0],
           [path |-> <<n_docs, n_h_md>>, isdir |-> FALSE, size |-> n_size(n_h_md)] }

InitExtensions ==
    /\ fs \in {F \in SUBSET ExtensionEntries :
                  \A e \in F : Len(e.path) = 1 \/ \E d \in F :
                      d.isdir /\ d.path = SubSeq(e.path, 1, Len(e.path) - 1)}
    /\ call = NoCall
    /\ listing = <<>>
    /\ output = <<>>
    /\ stats = <<>>
    /\ size_bytes = <<>>
    /\ formatted = <<>>
    /\ ignore_file = NoFile
    /\ result = <<>>
    /\ walk = NoWalk
    /\ denied = {}

GenerateWithStatistics ==
    \E root_dir \in RootDirs,
       ignore_patterns \in {None, Some(<< <<"*", ".", "t", "x", "t">> >>)},
       order \in ListingOrders :
        /\ call = NoCall
        /\ call' = [op |-> "generate_directory_tree", root_dir |-> root_dir,
                    ignore_patterns |-> ignore_patterns,
                    max_depth |-> None, include_stats |-> TRUE]
        /\ listing' = order
        /\ output' = generate_directory_tree(fs, order, root_dir,
                         ignore_patterns, None, TRUE)
        /\ UNCHANGED <<fs, stats, size_bytes, formatted>>
        /\ UNCHANGED <<ignore_file, result, walk, denied>>

NextExtensions ==
    \/ GenerateWithStatistics
    \/ Return

SpecExtensions == InitExtensions /\ [][NextExtensions]_vars

-----------------------------------------------------------------------------
(* A traversal taken one system call at a time, while the environment      *)
(* changes the tree it walks.  generate_directory_tree and                  *)
(* calculate_directory_stats ask the filesystem with os.listdir,            *)
(* os.path.isdir and os.path.getsize; between two of these calls another    *)
(* process may remove an entry, forbid the listing of a directory or put a  *)
(* file where a directory was.  walk.frames is the stack of the helper's    *)
(* activations, the innermost last.                                          *)

WalkEntries ==
    { [path |-> <<n_src>>, isdir |-> TRUE, size |-> 0],
      [path |-> <<n_src, n_main_py>>, isdir |-> FALSE,
       size |-> n_size(n_main_py)],
      [path |-> <<n_b_log>>, isdir |-> FALSE, size |-> n_size(n_b_log)] }

WalkPatternArgs == {None, Some(<<>>)}

WalkDepthArgs == {None, Some(0)}

InitWalk ==
    /\ fs \in {F \in SUBSET WalkEntries :
                 \A e \in F : Len(e.path) = 1
                     \/ isdir(F, SubSeq(e.path, 1, Len(e.path) - 1))}
    /\ call = NoCall
    /\ listing = <<>>
    /\ output = <<>>
    /\ stats = <<>>
    /\ size_bytes = <<>>
    /\ formatted = <<>>
    /\ ignore_file = NoFile
    /\ result = <<>>
    /\ walk = NoWalk
    /\ denied = {}

\* an activation of _generate_tree or _analyze_directory that has not yet
\* listed its directory
frame(node, directory, prefix, depth) ==
    [node |-> node, directory |-> directory, prefix |-> prefix,
     depth |-> depth, pc |-> "listdir", entries |-> <<>>, i |-> 1,
     processed_entries |-> 0, total_valid |-> 0]

innermost(w) == w.frames[Len(w.frames)]
pop(w) == [w EXCEPT !.frames = SubSeq(@, 1, Len(@) - 1)]
push(w, f) == [w EXCEPT !.frames = Append(@, f)]
replace_top(w, f) == [w EXCEPT !.frames[Len(w.frames)] = f]

\* ignore_patterns as _generate_tree sees it
tree_patterns ==
    IF call.ignore_patterns = None THEN default_ignore_patterns
    ELSE call.ignore_patterns[1]

\* ignore_patterns as _analyze_directory sees it
stats_patterns ==
    IF call.op = "generate_directory_tree" THEN Some(tree_patterns)
    ELSE call.ignore_patterns

\* The helpers return when their for loop is over: the activations that have
\* no entry left are left.  When none remains, generate_directory_tree goes
\* from its statistics to its tree, and the call returns after the tree.
RECURSIVE unwind(_)
unwind(w) ==
    IF w.frames = <<>>
    THEN IF w.phase = "stats" /\ call.op = "generate_directory_tree"
         THEN [w EXCEPT !.phase = "tree",
                        !.frames = <<frame(<<>>, abspath(call.root_dir), <<>>, 0)>>]
         ELSE [w EXCEPT !.status = "returned"]
    ELSE IF innermost(w).pc = "entry" /\ innermost(w).i > Len(innermost(w).entries)
    THEN unwind(pop(w))
    ELSE w

\* The traversal goes on from w; a call that returns hands over its value.
Proceed(w) ==
    LET after == unwind(w)
    IN /\ walk' = after
       /\ output' =
            IF after.status = "returned" /\ call.op = "generate_directory_tree"
            THEN str_join(<<"\n">>,
                     after.tree_lines
                     \o (IF call.include_stats THEN stats_lines(after.stats)
                         ELSE <<>>))
            ELSE output
       /\ stats' =
            IF after.status = "returned" /\ call.op = "calculate_directory_stats"
            THEN after.stats
            ELSE stats

\* what os.listdir does on a node of the tree as it is now
os_listdir(F, D, node) ==
    IF node # <<>> /\ ~exists(F, node) THEN "FileNotFoundError"
    ELSE IF ~isdir(F, node) THEN "NotADirectoryError"
    ELSE IF node \in D THEN "PermissionError"
    ELSE "entries"

StartGenerateDirectoryTree ==
    \E root_dir \in RootDirs, ignore_patterns \in WalkPatternArgs,
       max_depth \in WalkDepthArgs, include_stats \in BOOLEAN,
       order \in ListingOrders :
        /\ call = NoCall
        /\ walk = NoWalk
        /\ call' = [op |-> "generate_directory_tree", root_dir |-> root_dir,
                    ignore_patterns |-> ignore_patterns,
                    max_depth |-> max_depth, include_stats |-> include_stats]
        /\ listing' = order
        /\ walk' = [status |-> "running",
                    phase |-> IF include_stats THEN "stats" ELSE "tree",
                    frames |-> <<frame(<<>>, abspath(root_dir), <<>>, 0)>>,
                    tree_lines |-> <<basename(abspath(root_dir))>>,
                    stats |-> new_stats,
                    changes |-> 0,
                    raised |-> None]
        /\ UNCHANGED <<fs, output, stats, size_bytes, formatted>>
        /\ UNCHANGED <<ignore_file, result, denied>>

StartCalculateDirectoryStats ==
    \E directory \in RootDirs, ignore_patterns \in WalkPatternArgs,
       order \in ListingOrders :
        /\ call = NoCall
        /\ walk = NoWalk
        /\ call' = [op |-> "calculate_directory_stats", root_dir |-> directory,
                    ignore_patterns |-> ignore_patterns]
        /\ listing' = order
        /\ walk' = [status |-> "running",
                    phase |-> "stats",
                    frames |-> <<frame(<<>>, directory, <<>>, 0)>>,
                    tree_lines |-> <<>>,
                    stats |-> new_stats,
                    changes |-> 0,
                    raised |-> None]
        /\ UNCHANGED <<fs, output, stats, size_bytes, formatted>>
        /\ UNCHANGED <<ignore_file, result, denied>>

\* The helper is entered and lists its directory.  PermissionError and
\* FileNotFoundError are caught and the helper returns; any other error of
\* os.listdir leaves the helper, its callers and the call.
Listdir ==
    /\ walk.status = "running"
    /\ innermost(walk).pc = "listdir"
    /\ LET f == innermost(walk)
           in_tree == walk.phase = "tree"
           entered == IF in_tree THEN walk
                      ELSE [walk EXCEPT !.stats.max_depth = Max(@, f.depth)]
           outcome == os_listdir(fs, denied, f.node)
           listed == listdir(fs, listing, f.node)
           entries == IF in_tree THEN sorted(listed) ELSE listed
       IN IF in_tree /\ depth_exceeded(call.max_depth, f.depth)
          THEN Proceed(pop(walk))
          ELSE IF outcome \in {"PermissionError", "FileNotFoundError"}
          THEN Proceed(pop(entered))
          ELSE IF outcome # "entries"
          THEN /\ walk' = [entered EXCEPT !.status = "raised",
                                          !.raised = Some(outcome)]
               /\ UNCHANGED <<output, stats>>
          ELSE Proceed(replace_top(entered,
                   [f EXCEPT !.pc = "entry",
                             !.entries = entries,
                             !.total_valid =
                                 IF in_tree
                                 THEN total_valid_entries(f.directory, entries,
                                                          tree_patterns)
                                 ELSE 0]))
    /\ UNCHANGED <<fs, call, listing, size_bytes, formatted>>
    /\ UNCHANGED <<ignore_file, result, denied>>

\* One turn of the for loop, up to and with its os.path.isdir
VisitEntry ==
    /\ walk.status = "running"
    /\ innermost(walk).pc = "entry"
    /\ LET f == innermost(walk)
           entry == f.entries[f.i]
           full_path == path_join(f.directory, entry)
           child == Append(f.node, entry)
           next == [f EXCEPT !.i = @ + 1]
       IN IF walk.phase = "tree"
          THEN IF should_ignore(full_path, tree_patterns)
               THEN Proceed(replace_top(walk, next))
               ELSE
                   LET processed == f.processed_entries + 1
                       is_last == processed = f.total_valid
                       branch == IF is_last THEN branch_last ELSE branch_mid
                       new_prefix ==
                           f.prefix \o (IF is_last THEN prefix_last ELSE prefix_mid)
                       line == f.prefix \o branch \o entry
                       appended ==
                           replace_top([walk EXCEPT !.tree_lines = Append(@, line)],
                                       [next EXCEPT !.processed_entries = processed])
                   IN IF isdir(fs, child)
                      THEN Proceed(push(appended,
                               frame(child, full_path, new_prefix, f.depth + 1)))
                      ELSE Proceed(appended)
          ELSE IF stats_patterns # None /\ stats_patterns # Some(<<>>)
                  /\ should_ignore(full_path, stats_patterns[1])
               THEN Proceed(replace_top(walk, next))
               ELSE IF isdir(fs, child)
               THEN Proceed(push(
                        replace_top([walk EXCEPT !.stats.dir_count = @ + 1], next),
                        frame(child, full_path, <<>>, f.depth + 1)))
               ELSE Proceed(replace_top([walk EXCEPT !.stats.file_count = @ + 1],
                                        [f EXCEPT !.pc = "getsize"]))
    /\ UNCHANGED <<fs, call, listing, size_bytes, formatted>>
    /\ UNCHANGED <<ignore_file, result, denied>>

\* os.path.getsize of the file just counted; an OSError is caught and the
\* file adds neither size nor extension
Getsize ==
    /\ walk.status = "running"
    /\ innermost(walk).pc = "getsize"
    /\ LET f == innermost(walk)
           entry == f.entries[f.i]
           child == Append(f.node, entry)
           ext == splitext_ext(entry)
           next == [f EXCEPT !.pc = "entry", !.i = @ + 1]
           sized == [walk EXCEPT !.stats.total_size = @ + getsize(fs, child)]
           counted == IF ext # <<>>
                      THEN [sized EXCEPT !.stats.extensions =
                                             count_extension(@, lower(ext))]
                      ELSE sized
       IN IF exists(fs, child)
          THEN Proceed(replace_top(counted, next))
          ELSE Proceed(replace_top(walk, next))
    /\ UNCHANGED <<fs, call, listing, size_bytes, formatted>>
    /\ UNCHANGED <<ignore_file, result, denied>>

\* p is node or lies below it
Within(node, p) == Len(p) >= Len(node) /\ SubSeq(p, 1, Len(node)) = node

\* another process removes a file, or a directory with all it holds
Remove ==
    \E e \in fs :
        /\ walk.status = "running"
        /\ walk.changes < MaxChanges
        /\ fs' = {x \in fs : ~Within(e.path, x.path)}
        /\ denied' = {d \in denied : ~Within(e.path, d)}
        /\ walk' = [walk EXCEPT !.changes = @ + 1]
        /\ UNCHANGED <<call, listing, output, stats, size_bytes, formatted>>
        /\ UNCHANGED <<ignore_file, result>>

\* another process takes away the permission to list a directory
Chmod ==
    \E d \in {<<>>} \cup {e.path : e \in {x \in fs : x.isdir}} :
        /\ walk.status = "running"
        /\ walk.changes < MaxChanges
        /\ d \notin denied
        /\ denied' = denied \cup {d}
        /\ walk' = [walk EXCEPT !.changes = @ + 1]
        /\ UNCHANGED <<fs, call, listing, output, stats, size_bytes, formatted>>
        /\ UNCHANGED <<ignore_file, result>>

\* another process puts a file where a directory was
ReplaceByFile ==
    \E e \in {x \in fs : x.isdir} :
        /\ walk.status = "running"
        /\ walk.changes < MaxChanges
        /\ fs' = {x \in fs : ~Within(e.path, x.path)}
                 \cup {[path |-> e.path, isdir |-> FALSE, size |-> 0]}
        /\ denied' = {d \in denied : ~Within(e.path, d)}
        /\ walk' = [walk EXCEPT !.changes = @ + 1]
        /\ UNCHANGED <<call, listing, output, stats, size_bytes, formatted>>
        /\ UNCHANGED <<ignore_file, result>>

NextWalk ==
    \/ StartGenerateDirectoryTree
    \/ StartCalculateDirectoryStats
    \/ Listdir
    \/ VisitEntry
    \/ Getsize
    \/ Remove
    \/ Chmod
    \/ ReplaceByFile

SpecWalk == InitWalk /\ [][NextWalk]_vars

-----------------------------------------------------------------------------
(* Reading a rendered string back: its lines, and the entry each entry     *)
(* line stands for.                                                        *)

RECURSIVE split_lines(_)
split_lines(s) ==
    LET breaks == {k \in 1..Len(s) : s[k] = "\n"}
    IN IF breaks = {} THEN <<s>>
       ELSE LET k == CHOOSE b \in breaks : \A c \in breaks : b <= c
            IN <<SubSeq(s, 1, k - 1)>> \o split_lines(SubSeq(s, k + 1, Len(s)))

\* The lines after the root's line and before the blank line that opens the
\* statistics block
EntryLines(s) ==
    LET rest == Tail(split_lines(s))
        blanks == {k \in 1..Len(rest) : rest[k] = <<>>}
        stop == IF blanks = {} THEN Len(rest) + 1
                ELSE CHOOSE b \in blanks : \A c \in blanks : b <= c
    IN SubSeq(rest, 1, stop - 1)

\* The blank line that opens the statistics block and all that follows it
StatsBlock(s) ==
    LET all == split_lines(s)
        blanks == {k \in 2..Len(all) : all[k] = <<>>}
    IN IF blanks = {} THEN <<>>
       ELSE SubSeq(all, CHOOSE b \in blanks : \A c \in blanks : b <= c, Len(all))

Corners == {"U+2514", "U+251C"}

GlyphAt(line) ==
    LET at == {g \in 1..Len(line) : line[g] \in Corners}
    IN IF at = {} THEN 0 ELSE CHOOSE g \in at : \A h \in at : g <= h

LinePrefix(line) == SubSeq(line, 1, GlyphAt(line) - 1)
LineBranch(line) == SubSeq(line, GlyphAt(line), GlyphAt(line) + 3)
LineName(line) == SubSeq(line, GlyphAt(line) + 4, Len(line))
LineDepth(line) == (GlyphAt(line) - 1) \div 4

NoNode == << <<>> >>

\* The entry line i stands for: its name below the entry of the nearest
\* earlier line that is one level up
RECURSIVE LineNode(_, _)
LineNode(lines, i) ==
    LET d == LineDepth(lines[i])
        ups == {j \in 1..(i - 1) : LineDepth(lines[j]) = d - 1}
    IN IF GlyphAt(lines[i]) = 0 THEN NoNode
       ELSE IF d = 0 THEN <<LineName(lines[i])>>
       ELSE IF ups = {} THEN NoNode
       ELSE LET up == LineNode(lines, CHOOSE j \in ups : \A k \in ups : k <= j)
            IN IF up = NoNode THEN NoNode ELSE Append(up, LineName(lines[i]))

\* The string that names a node in a call on root_dir
RECURSIVE NodePath(_, _)
NodePath(root, node) ==
    IF node = <<>> THEN root
    ELSE NodePath(root, SubSeq(node, 1, Len(node) - 1))
             \o <<os_sep>> \o node[Len(node)]

\* The pattern list a call works with
Active(c) ==
    IF c.ignore_patterns # None THEN c.ignore_patterns[1]
    ELSE IF c.op = "generate_directory_tree" THEN default_ignore_patterns
    ELSE <<>>

\* Some pattern matches the base name or the full path of the node
Matched(root, node, patterns) ==
    \E k \in 1..Len(patterns) :
        \/ fnmatch(node[Len(node)], patterns[k])
        \/ fnmatch(NodePath(root, node), patterns[k])

\* Neither the node nor a directory above it (below the root) is matched
Survives(root, node, patterns) ==
    \A n \in 1..Len(node) : ~Matched(root, SubSeq(node, 1, n), patterns)

Rendered == call.op = "generate_directory_tree"
Root == IF Rendered THEN abspath(call.root_dir) ELSE call.root_dir
Lines == EntryLines(output)
LineNodes == LET lines == Lines IN [i \in 1..Len(lines) |-> LineNode(lines, i)]
Survivors == {e \in fs : Survives(Root, e.path, Active(call))}
ParentOf(node) == SubSeq(node, 1, Len(node) - 1)
ChildrenIn(entries, node) ==
    {e.path[Len(e.path)] : e \in {x \in entries : ParentOf(x.path) = node}}

-----------------------------------------------------------------------------
(* C1: exclusion completeness.  Every entry line of a rendered tree stands  *)
(* for an entry of the tree such that no pattern of the list matches the    *)
(* base name or the full path of that entry or of a directory above it.     *)
C1_ExclusionComplete ==
    Rendered =>
        LET nodes == LineNodes
        IN \A i \in 1..Len(nodes) :
               /\ exists(fs, nodes[i])
               /\ \A n \in 1..Len(nodes[i]) :
                      ~Matched(Root, SubSeq(nodes[i], 1, n), Active(call))

\* A render in which a directory matched only by its full path, with an
\* entry beneath it, is left out while other entries are listed
C1_Witness ==
    /\ Rendered
    /\ Lines # <<>>
    /\ \E e \in fs, below \in fs :
           /\ e.isdir
           /\ Len(below.path) = Len(e.path) + 1
           /\ SubSeq(below.path, 1, Len(e.path)) = e.path
           /\ \E k \in 1..Len(Active(call)) :
                  /\ fnmatch(NodePath(Root, e.path), Active(call)[k])
                  /\ \A m \in 1..Len(Active(call)) :
                         ~fnmatch(e.path[Len(e.path)], Active(call)[m])

-----------------------------------------------------------------------------
IsSortLast(name, names) ==
    \A other \in names : other = name \/ str_less(other, name)

LevelRendered(survivors, parent) ==
    /\ isdir(fs, parent)
    /\ parent = <<>> \/ \E e \in survivors : e.path = parent
    /\ call.max_depth = None \/ Len(parent) <= call.max_depth[1]

(* C2: termination correctness.  In every rendered level with a surviving   *)
(* child, the line of the surviving child that sorts last carries the       *)
(* terminal glyph, it is the only line of the level that does, and every    *)
(* other line of the level carries the mid-branch glyph.                    *)
C2_TerminalGlyph ==
    Rendered =>
        LET lines == Lines
            nodes == LineNodes
            survivors == Survivors
        IN /\ \A i \in 1..Len(lines) :
                  /\ nodes[i] # NoNode
                  /\ LineBranch(lines[i]) =
                         IF IsSortLast(nodes[i][Len(nodes[i])],
                                ChildrenIn(survivors, ParentOf(nodes[i])))
                         THEN branch_last ELSE branch_mid
           /\ \A parent \in {<<>>} \cup {e.path : e \in fs} :
                  /\ LevelRendered(survivors, parent)
                  /\ ChildrenIn(survivors, parent) # {}
                  => Cardinality({i \in 1..Len(lines) :
                         /\ ParentOf(nodes[i]) = parent
                         /\ LineBranch(lines[i]) = branch_last}) = 1

\* A level rendered with two surviving children after the child that sorts
\* last in the listing was filtered out
C2_Witness ==
    /\ Rendered
    /\ \E parent \in {<<>>} \cup {e.path : e \in fs} :
           /\ LevelRendered(Survivors, parent)
           /\ Cardinality(ChildrenIn(Survivors, parent)) >= 2
           /\ \E gone \in ChildrenIn(fs, parent) \ ChildrenIn(Survivors, parent) :
                  IsSortLast(gone, ChildrenIn(fs, parent))

-----------------------------------------------------------------------------
SizeIs(k, e) ==
    size_bytes \in {[mant |-> k * pow1024(j), exp |-> e - j] : j \in 0..(IF e < 2 THEN e ELSE 2)}

(* C3: format_size on the sizes of the test, and the shape of every result: *)
(* a number without trailing zeros or trailing point, one space, one unit.  *)
C3_FormatSize ==
    formatted # <<>> =>
        /\ SizeIs(0, 0) => formatted = <<"0", " ", "B">>
        /\ SizeIs(1023, 0) => formatted = <<"1", "0", "2", "3", " ", "B">>
        /\ SizeIs(1, 1) => formatted = <<"1", " ", "K", "B">>
        /\ SizeIs(1536, 0) => formatted = <<"1", ".", "5", " ", "K", "B">>
        /\ SizeIs(1, 2) => formatted = <<"1", " ", "M", "B">>
        /\ SizeIs(1, 3) => formatted = <<"1", " ", "G", "B">>
        /\ SizeIs(1, 4) => formatted = <<"1", " ", "T", "B">>
        /\ \E k \in 2..Len(formatted) :
               LET number == SubSeq(formatted, 1, k - 1)
                   point == {d \in 1..Len(number) : number[d] = "."}
               IN /\ formatted[k] = " "
                  /\ \E u \in 1..Len(size_units) :
                         SubSeq(formatted, k + 1, Len(formatted)) = size_units[u]
                  /\ \A d \in 1..Len(number) : number[d] \in {"."} \cup
                         {digit_char[n] : n \in 1..10}
                  /\ Cardinality(point) <= 1
                  /\ \A d \in point :
                         /\ d > 1 /\ d < Len(number) /\ Len(number) - d <= 2
                         /\ number[Len(number)] # "0"

-----------------------------------------------------------------------------
DepthOf(node) == Len(node) - 1

(* C4: depth limiting.  With max_depth = L the entry lines stand, each once, *)
(* for exactly the surviving entries of depth at most L, the root's         *)
(* children being at depth 0.                                               *)
C4_DepthLimit ==
    Rendered /\ call.max_depth # None =>
        LET nodes == LineNodes
            listed == {nodes[i] : i \in 1..Len(nodes)}
        IN /\ listed = {e.path : e \in {x \in Survivors :
                            DepthOf(x.path) <= call.max_depth[1]}}
           /\ Cardinality(listed) = Len(nodes)

\* A render with limit 1 of a tree with a surviving entry at depth 1, which
\* is listed, and a surviving entry at depth 2, which is not
C4_Witness ==
    /\ Rendered
    /\ call.max_depth = Some(1)
    /\ \E e \in Survivors : DepthOf(e.path) = 2
    /\ LET lines == Lines IN \E i \in 1..Len(lines) : LineDepth(lines[i]) = 1

-----------------------------------------------------------------------------
(* The scenario root {src/{main.py}, docs/{index.html}} rendered with       *)
(* statistics and the default or an empty pattern list.                     *)
ScenarioTree == fs = ScenarioEntries

ScenarioCall(limit) ==
    /\ Rendered
    /\ ScenarioTree
    /\ call.max_depth = Some(limit)
    /\ call.include_stats
    /\ call.ignore_patterns \in {None, Some(<<>>)}

ScenarioOutput ==
    LET lines == Lines
        block == StatsBlock(output)
    IN /\ \E i \in 1..Len(lines) : LineName(lines[i]) = n_src
       /\ \E i \in 1..Len(lines) : LineName(lines[i]) = n_docs
       /\ \A i \in 1..Len(lines) :
              LineName(lines[i]) \notin {n_main_py, n_index_html}
       /\ \E k \in 1..Len(block) : block[k] = t_files \o <<"2">>

\* C5 as claimed: with depth limit 1 the output lists src and docs, has no
\* line for main.py or index.html, and reports Total Files: 2.
C5_ScenarioLimit1 == ScenarioCall(1) => ScenarioOutput

\* C5 amended: with depth limit 0 the output lists src and docs, has no line
\* for main.py or index.html, and reports Total Files: 2.
C5_ScenarioLimit0 == ScenarioCall(0) => ScenarioOutput

C5_Witness == ScenarioCall(0) /\ Len(Lines) = 2

-----------------------------------------------------------------------------
(* C6: monotonicity of depth limiting.  The entry lines of a render with    *)
(* limit L are, in order and character for character, the entry lines of    *)
(* the unlimited render of the same tree whose depth is at most L.          *)
C6_DepthMonotone ==
    Rendered /\ call.max_depth # None =>
        Lines = SelectSeq(
                    EntryLines(generate_directory_tree(fs, listing,
                        call.root_dir, call.ignore_patterns, None,
                        call.include_stats)),
                    LAMBDA line : LineDepth(line) <= call.max_depth[1])

\* A limited render that lists a directory whose surviving children lie
\* beyond the limit, next to a later sibling
C6_Witness ==
    /\ Rendered
    /\ call.max_depth # None
    /\ LET nodes == LineNodes
       IN \E e \in Survivors :
              /\ DepthOf(e.path) = call.max_depth[1] + 1
              /\ \E i \in 1..(Len(nodes) - 1) : nodes[i] = ParentOf(e.path)

-----------------------------------------------------------------------------
(* C7: the statistics block does not depend on max_depth.  Whatever limit   *)
(* the call was made with, the block it returned is the block of the same   *)
(* call made with any other limit or none.                                  *)
C7_StatsIgnoreDepth ==
    Rendered /\ call.include_stats =>
        LET block == StatsBlock(output)
        IN /\ block # <<>>
           /\ \A d \in DepthArgs \ {call.max_depth} :
                  StatsBlock(generate_directory_tree(fs, listing,
                      call.root_dir, call.ignore_patterns, d, TRUE)) = block

\* A render with statistics and limit 0 of a tree that has a surviving file
\* below a directory
C7_Witness ==
    /\ Rendered
    /\ call.include_stats
    /\ call.max_depth = Some(0)
    /\ \E e \in Survivors : ~e.isdir /\ DepthOf(e.path) >= 1

-----------------------------------------------------------------------------
RECURSIVE SumOfSizes(_)
SumOfSizes(entries) ==
    IF entries = {} THEN 0
    ELSE LET e == CHOOSE x \in entries : TRUE
         IN e.size + SumOfSizes(entries \ {e})

Counted == call.op = "calculate_directory_stats"

(* C8: statistics counts.  file_count + dir_count is the number of          *)
(* surviving entries, total_size the sum of the sizes of the surviving      *)
(* files, and the entries beneath an excluded directory add nothing to      *)
(* file_count or dir_count.                                                 *)
C8_StatsCounts ==
    Counted =>
        /\ stats.file_count + stats.dir_count = Cardinality(Survivors)
        /\ stats.total_size = SumOfSizes({e \in Survivors : ~e.isdir})
        /\ LET pruned == {e \in fs :
                              Survives(Root, ParentOf(e.path), Active(call))}
               without == calculate_directory_stats(pruned, listing,
                              call.root_dir, call.ignore_patterns)
           IN /\ without.file_count = stats.file_count
              /\ without.dir_count = stats.dir_count

\* Statistics of a tree with an excluded directory that holds a file, and a
\* surviving file of non-zero size
C8_Witness ==
    /\ Counted
    /\ stats.total_size > 0
    /\ \E e \in fs, below \in fs :
           /\ e.isdir
           /\ Matched(Root, e.path, Active(call))
           /\ ~below.isdir
           /\ ParentOf(below.path) = e.path

-----------------------------------------------------------------------------
GreatestDepth ==
    LET depths == {DepthOf(e.path) : e \in Survivors} \cup {0}
    IN CHOOSE d \in depths : \A other \in depths : other <= d

(* C9: max_depth of the statistics is the greatest depth of a surviving     *)
(* entry, the root's children being at depth 0, and 0 when nothing          *)
(* survives.                                                                *)
C9_MaxDepth == Counted => stats.max_depth = GreatestDepth

-----------------------------------------------------------------------------
(* C10: determinism.  The string a call returned is the string the same     *)
(* call returns on the same tree whatever order os.listdir lists the        *)
(* children in.                                                             *)
C10_Deterministic ==
    Rendered =>
        \A order \in ListingOrders :
            generate_directory_tree(fs, order, call.root_dir,
                call.ignore_patterns, call.max_depth, call.include_stats)
                = output

-----------------------------------------------------------------------------
\* The tree without the entries a default pattern matches, and what lies
\* beneath them
WithoutDefaultMatches ==
    {e \in fs : Survives(Root, e.path, default_ignore_patterns)}

(* C11: defaults are unioned, not replaced.  When the caller passes a list   *)
(* of patterns, no entry line stands for an entry that a default pattern    *)
(* matches, and the statistics block is that of the tree without such       *)
(* entries, whether or not the list mentions them.                          *)
C11_DefaultsUnioned ==
    Rendered /\ call.ignore_patterns # None =>
        LET nodes == LineNodes
        IN /\ \A i \in 1..Len(nodes) :
                  nodes[i] # NoNode =>
                      Survives(Root, nodes[i], default_ignore_patterns)
           /\ call.include_stats =>
                  StatsBlock(output) =
                      StatsBlock(generate_directory_tree(WithoutDefaultMatches,
                          listing, call.root_dir, call.ignore_patterns,
                          call.max_depth, TRUE))

-----------------------------------------------------------------------------
Loaded == call.op = "load_ignore_file"

\* The maximal runs of characters other than line ends, from position k on
RECURSIVE RunsFrom(_, _)
RunsFrom(text, k) ==
    IF k > Len(text) THEN <<>>
    ELSE IF text[k] \in {"\n", "\r"} THEN RunsFrom(text, k + 1)
    ELSE LET ends == {e \in k..Len(text) : text[e] \in {"\n", "\r"}}
             stop == IF ends = {} THEN Len(text) + 1
                     ELSE CHOOSE e \in ends : \A other \in ends : e <= other
         IN <<SubSeq(text, k, stop - 1)>> \o RunsFrom(text, stop)

\* A line from its first to its last character that is not a blank or a tab
Trimmed(line) ==
    LET solid == {k \in 1..Len(line) : line[k] \notin {" ", "\t"}}
    IN IF solid = {} THEN <<>>
       ELSE SubSeq(line, CHOOSE k \in solid : \A other \in solid : k <= other,
                         CHOOSE k \in solid : \A other \in solid : other <= k)

\* The patterns a text holds, in the order of its lines
PatternsOf(text) ==
    LET runs == RunsFrom(text, 1)
    IN SelectSeq([i \in 1..Len(runs) |-> Trimmed(runs[i])],
                 LAMBDA line : line # <<>> /\ line[1] # "#")

-----------------------------------------------------------------------------
\* Glob semantics as stated: '*' any run of characters, '?' one character,
\* every other character itself, letters compared without regard to case
RECURSIVE GlobMatches(_, _)
GlobMatches(name, pat) ==
    IF pat = <<>> THEN name = <<>>
    ELSE IF pat[1] = "*"
         THEN \E k \in 0..Len(name) :
                  GlobMatches(SubSeq(name, k + 1, Len(name)), Tail(pat))
    ELSE IF name = <<>> THEN FALSE
    ELSE IF pat[1] = "?" THEN GlobMatches(Tail(name), Tail(pat))
    ELSE /\ lower_char(pat[1]) = lower_char(name[1])
         /\ GlobMatches(Tail(name), Tail(pat))

Matching == call.op = "should_ignore"

(* C13: glob semantics of should_ignore.  The answer is TRUE exactly when   *)
(* some pattern of the list matches the base name or the whole path, '*'    *)
(* standing for any run of characters, '?' for one character and every      *)
(* other character, '[' and ']' too, for itself without regard to case.     *)
C13_GlobSemantics ==
    Matching =>
        result = \E i \in 1..Len(call.ignore_patterns) :
                     \/ GlobMatches(basename(call.path), call.ignore_patterns[i])
                     \/ GlobMatches(call.path, call.ignore_patterns[i])

-----------------------------------------------------------------------------
Ignored == call.op = "is_path_ignored"

\* pattern is D/ and path is D/rest
UnderDirectoryPattern(path, pattern) ==
    /\ Len(pattern) >= 2
    /\ pattern[Len(pattern)] = "/"
    /\ Len(path) >= Len(pattern)
    /\ SubSeq(path, 1, Len(pattern)) = pattern

\* The path, as given or without a leading './', matches the pattern as a
\* glob or lies under it as a directory pattern, without regard to case
MatchesLoosely(path, pattern) ==
    \E p \in {path, IF Len(path) >= 2 /\ SubSeq(path, 1, 2) = <<".", "/">>
                    THEN SubSeq(path, 3, Len(path)) ELSE path} :
        \/ GlobMatches(p, Trimmed(pattern))
        \/ UnderDirectoryPattern(lower(p), lower(Trimmed(pattern)))

(* C14: is_path_ignored with directory patterns.  TRUE for a path D/rest    *)
(* when the list holds the pattern D/, also when D starts with a dot; TRUE  *)
(* for a path that matches a '*' glob of the list; FALSE for a path that    *)
(* matches no pattern of the list.                                          *)
C14_DirectoryPatterns ==
    Ignored =>
        LET patterns == call.ignore_patterns
        IN /\ (\E i \in 1..Len(patterns) :
                   UnderDirectoryPattern(call.path, patterns[i]))
                  => result = TRUE
           /\ (\E i \in 1..Len(patterns) :
                   /\ \E k \in 1..Len(patterns[i]) : patterns[i][k] = "*"
                   /\ GlobMatches(call.path, patterns[i]))
                  => result = TRUE
           /\ (\A i \in 1..Len(patterns) :
                   ~MatchesLoosely(call.path, patterns[i]))
                  => result = FALSE

-----------------------------------------------------------------------------
\* The names D of the patterns D/ of a list
DirectoryPatternNames(patterns) ==
    {SubSeq(patterns[i], 1, Len(patterns[i]) - 1) :
        i \in {k \in 1..Len(patterns) :
                  Len(patterns[k]) >= 2 /\ patterns[k][Len(patterns[k])] = "/"}}

\* The node is a directory with one of the names, or lies beneath one
UnderNamedDirectory(F, node, names) ==
    \E n \in 1..Len(node) :
        node[n] \in names /\ isdir(F, SubSeq(node, 1, n))

(* C15: trailing-slash patterns in the renderer.  When the list holds a     *)
(* pattern D/, no entry line stands for a directory named D or for an       *)
(* entry beneath it, and the statistics block is that of the tree without   *)
(* them.                                                                    *)
C15_TrailingSlash ==
    Rendered =>
        LET names == DirectoryPatternNames(Active(call))
            nodes == LineNodes
        IN /\ \A i \in 1..Len(nodes) :
                  nodes[i] # NoNode => ~UnderNamedDirectory(fs, nodes[i], names)
           /\ call.include_stats =>
                  StatsBlock(output) =
                      StatsBlock(generate_directory_tree(
                          {e \in fs : ~UnderNamedDirectory(fs, e.path, names)},
                          listing, call.root_dir, call.ignore_patterns,
                          call.max_depth, TRUE))

-----------------------------------------------------------------------------
Validated == call.op = "validate_ignore_pattern"

\* An empty, whitespace-only or comment pattern
Invalid(pattern) == Trimmed(pattern) = <<>> \/ Trimmed(pattern)[1] = "#"

ValidOnly(patterns) == SelectSeq(patterns, LAMBDA p : ~Invalid(p))

(* C17: invalid patterns are absent from the active set.                    *)
(* validate_ignore_pattern returns None for an empty, whitespace-only or    *)
(* '#'-prefixed pattern and an anchored expression for any other, and what  *)
(* is_path_ignored and generate_directory_tree return for a list is what    *)
(* they return for the list without its invalid patterns.                   *)
C17_InvalidPatterns ==
    /\ Validated =>
           /\ (result = None) = Invalid(call.pattern)
           /\ result # None =>
                  /\ result[1][1] = "^"
                  /\ result[1][Len(result[1])] = "$"
    /\ Ignored =>
           result = is_path_ignored(call.path, ValidOnly(call.ignore_patterns))
    /\ Rendered =>
           output = generate_directory_tree(fs, listing, call.root_dir,
                        Some(ValidOnly(Active(call))), call.max_depth,
                        call.include_stats)

-----------------------------------------------------------------------------
(* C20: exclusion depends only on the entry, not on where the root lives.   *)
(* The first line is the root's base name whatever the patterns, and the    *)
(* entry lines of a render are those of the render of the same tree with    *)
(* the same patterns under any other path of the root.                      *)
C20_RootIndependent ==
    Rendered =>
        /\ split_lines(output)[1] = basename(Root)
        /\ \A root_dir \in MatchRoots :
               EntryLines(generate_directory_tree(fs, listing, root_dir,
                   call.ignore_patterns, call.max_depth, call.include_stats))
                   = Lines

-----------------------------------------------------------------------------
\* a comes before b in code point order: at the first place where they
\* differ a has the smaller code point, or a is b cut short
Precedes(a, b) ==
    \/ Len(a) < Len(b) /\ SubSeq(b, 1, Len(a)) = a
    \/ \E k \in 1..(IF Len(a) < Len(b) THEN Len(a) ELSE Len(b)) :
           /\ SubSeq(a, 1, k - 1) = SubSeq(b, 1, k - 1)
           /\ ord[a[k]] < ord[b[k]]

IsBeneath(node, above) ==
    Len(above) < Len(node) /\ SubSeq(node, 1, Len(above)) = above

\* The prefix of the line of a node: one segment for each directory above
\* it, blank when that directory is the last survivor of its level
RECURSIVE PrefixOf(_, _)
PrefixOf(survivors, node) ==
    IF Len(node) <= 1 THEN <<>>
    ELSE LET above == ParentOf(node)
         IN PrefixOf(survivors, above) \o
            (IF IsSortLast(above[Len(above)],
                           ChildrenIn(survivors, ParentOf(above)))
             THEN prefix_last ELSE prefix_mid)

(* C18: sibling order and nesting.  Every entry line stands for an entry    *)
(* of the tree, no two for the same; the lines of the children of one       *)
(* directory come in strictly ascending code point order of their names     *)
(* whatever order the listing had; the lines of what lies beneath a         *)
(* directory come right after its line, before its next sibling; and the    *)
(* prefix of a line at depth d is d segments of four characters, segment i  *)
(* blank if the directory above at depth i was the last survivor of its     *)
(* level, a vertical bar and three blanks otherwise.                        *)
C18_OrderAndNesting ==
    Rendered =>
        LET lines == Lines
            nodes == LineNodes
            survivors == Survivors
        IN /\ \A i \in 1..Len(nodes) :
                  /\ exists(fs, nodes[i])
                  /\ Len(LinePrefix(lines[i])) = 4 * (Len(nodes[i]) - 1)
                  /\ LinePrefix(lines[i]) = PrefixOf(survivors, nodes[i])
           /\ \A i, j \in 1..Len(nodes) :
                  i < j =>
                      /\ nodes[i] # nodes[j]
                      /\ ParentOf(nodes[i]) = ParentOf(nodes[j]) =>
                             Precedes(nodes[i][Len(nodes[i])],
                                      nodes[j][Len(nodes[j])])
                      /\ ~IsBeneath(nodes[i], nodes[j])
                      /\ IsBeneath(nodes[j], nodes[i]) =>
                             \A k \in (i + 1)..j : IsBeneath(nodes[k], nodes[i])

\* A render of a listing that came in descending order, with a line beneath
\* a directory that is not the last of its level and a sibling after it
C18_Witness ==
    /\ Rendered
    /\ listing[1] = n_src
    /\ LET lines == Lines
       IN \E i \in 1..(Len(lines) - 1) :
              /\ LinePrefix(lines[i]) = prefix_mid
              /\ LineDepth(lines[i + 1]) = 0

-----------------------------------------------------------------------------
\* The lines of the block that follow the heading of the extensions
ExtensionLines(s) ==
    LET block == StatsBlock(s)
        heads == {k \in 1..Len(block) : block[k] = t_top}
    IN IF heads = {} THEN <<>>
       ELSE SubSeq(block, (CHOOSE k \in heads : TRUE) + 1, Len(block))

\* The value of a string of digits
RECURSIVE NumberOf(_)
NumberOf(digits) ==
    IF digits = <<>> THEN 0
    ELSE 10 * NumberOf(SubSeq(digits, 1, Len(digits) - 1))
         + (CHOOSE n \in 0..9 : digit_char[n + 1] = digits[Len(digits)])

\* The extension and the count of a line "  .ext: n files"
ListedExtension(line) ==
    LET colon == CHOOSE k \in 1..Len(line) :
                     line[k] = ":" /\ \A j \in 1..(k - 1) : line[j] # ":"
    IN [ext |-> SubSeq(line, 3, colon - 1),
        count |-> NumberOf(SubSeq(line, colon + 2, Len(line) - Len(t_count_suffix))),
        shaped |-> /\ SubSeq(line, 1, 2) = <<" ", " ">>
                   /\ SubSeq(line, colon, colon + 1) = <<":", " ">>
                   /\ SubSeq(line, Len(line) - Len(t_count_suffix) + 1, Len(line))
                          = t_count_suffix]

\* The extension of a file name in small letters: from its last dot on, when
\* something other than dots comes before that dot
ExtensionOf(name) ==
    LET dots == {k \in 2..Len(name) :
                    /\ name[k] = "."
                    /\ \A j \in (k + 1)..Len(name) : name[j] # "."
                    /\ \E j \in 1..(k - 1) : name[j] # "."}
    IN IF dots = {} THEN <<>>
       ELSE lower(SubSeq(name, CHOOSE k \in dots : TRUE, Len(name)))

\* The surviving entries in the order the statistics walk meets them: the
\* children of a directory as listed, each followed by what lies beneath it
RECURSIVE WalkOrder(_, _)
WalkOrder(survivors, node) ==
    LET names == SelectSeq(listing, LAMBDA n : n \in ChildrenIn(survivors, node))
        Below[i \in 0..Len(names)] ==
            IF i = 0 THEN <<>>
            ELSE Below[i - 1] \o <<Append(node, names[i])>>
                 \o WalkOrder(survivors, Append(node, names[i]))
    IN Below[Len(names)]

\* The place in the walk of the first file with the extension
FirstMet(walked, ext) ==
    CHOOSE k \in 1..Len(walked) :
        /\ ExtensionOf(walked[k][Len(walked[k])]) = ext
        /\ \A j \in 1..(k - 1) : ExtensionOf(walked[j][Len(walked[j])]) # ext

(* C19: extension ranking.  When statistics are requested and a surviving   *)
(* file has an extension, the block lists min(5, number of distinct         *)
(* extensions) extensions, each in small letters with its leading dot and   *)
(* with the number of surviving files that carry it, in non-increasing      *)
(* order of count, equal counts in the order the statistics walk first met  *)
(* them, and no extension left out has a greater count than one listed.     *)
C19_ExtensionRanking ==
    Rendered /\ call.include_stats =>
        LET survivors == Survivors
            files == {e.path : e \in {x \in survivors : ~x.isdir}}
            walked == SelectSeq(WalkOrder(survivors, <<>>),
                                LAMBDA node : node \in files)
            counted == {ExtensionOf(f[Len(f)]) : f \in files} \ {<<>>}
            CountOf(ext) ==
                Cardinality({f \in files : ExtensionOf(f[Len(f)]) = ext})
            rows == ExtensionLines(output)
            top == [i \in 1..Len(rows) |-> ListedExtension(rows[i])]
        IN /\ Len(top) = IF Cardinality(counted) < 5 THEN Cardinality(counted)
                         ELSE 5
           /\ \A i \in 1..Len(top) :
                  /\ top[i].shaped
                  /\ top[i].ext \in counted
                  /\ top[i].ext[1] = "."
                  /\ top[i].ext = lower(top[i].ext)
                  /\ top[i].count = CountOf(top[i].ext)
                  /\ \A other \in counted \ {top[k].ext : k \in 1..Len(top)} :
                         CountOf(other) <= top[i].count
           /\ \A i, j \in 1..Len(top) :
                  i < j =>
                      /\ top[i].ext # top[j].ext
                      /\ top[i].count >= top[j].count
                      /\ top[i].count = top[j].count =>
                             FirstMet(walked, top[i].ext)
                                 < FirstMet(walked, top[j].ext)

\* A render with statistics of a tree with more than five extensions, one of
\* them carried in capitals and in small letters, and extensions left out
\* that were counted as often as one listed
C19_Witness ==
    /\ Rendered
    /\ call.include_stats
    /\ Len(ExtensionLines(output)) = 5
    /\ {[path |-> <<n_a_py>>, isdir |-> FALSE, size |-> 0],
        [path |-> <<n_b_PY>>, isdir |-> FALSE, size |-> 0]} \subseteq Survivors
    /\ Cardinality({ExtensionOf(e.path[Len(e.path)]) :
                       e \in {x \in Survivors : ~x.isdir}} \ {<<>>}) >= 6


-----------------------------------------------------------------------------
(* C16: whatever the environment does to the tree during a walk (removes a  *)
(* directory, forbids its listing, puts a file in its place between the     *)
(* is-directory check and the listing, removes a file before its size is    *)
(* read), generate_directory_tree and calculate_directory_stats never       *)
(* raise: no traversal ends with an exception.                              *)
C16_FailSoft == walk.status # "raised"
====
